---------------------------- MODULE Spec2Model ----------------------------
(***************************************************************************)
(* Model of tools/whisper-server: the transcription adapter service        *)
(* (server.py) and the parameter sweep driver (sweep.py).                  *)
(*                                                                         *)
(* Four specifications share the variables below:                          *)
(*   Spec        the adapter service handling NumRequests concurrent       *)
(*               requests on one asyncio event loop;                       *)
(*   SpecParams  one request, its form drawn from every combination of the *)
(*               modelled form fields;                                     *)
(*   SpecTemp    parse_temperature applied to every short raw string;      *)
(*   SpecSweep   the sweep driver's run over TESTS x FILES.                 *)
(***************************************************************************)
EXTENDS Integers, Sequences, FiniteSets

VARIABLES
    \* ---- adapter service (server.py) ----
    form,             \* request id -> the parsed multipart form of the request
    pc,               \* request id -> position of its handler coroutine
    running,          \* the coroutine the event loop is executing, or NoTask
    disk,             \* names of the transient files that exist
    nextTmp,          \* source of fresh NamedTemporaryFile names
    tmp_path,         \* request id -> tmp.name (NoPath before creation)
    engine_args,      \* request id -> <<kwargs>> of whisper_model.transcribe, <<>> before the call
    inEngine,         \* requests between the transcribe call and the end of draining
    segments_gen,     \* request id -> segments the generator has still to yield
    result_segments,  \* request id -> seg_dicts collected so far
    all_words,        \* request id -> words collected so far
    response,         \* request id -> the payloads returned for it (a sequence)
    \* ---- parse_temperature on its own ----
    raw,              \* the raw temperature field
    parsed,           \* <<>> before the call, <<result>> after it
    \* ---- sweep driver (sweep.py) ----
    exists,           \* the files of FILES that are on disk
    spc,              \* position of the script
    ti,               \* index into TESTS of the configuration being run
    fi,               \* index into FILES of the file being processed
    results,          \* run_test's local result list
    all_results,      \* label -> result list (a dict: a function on the labels stored)
    out,              \* the report file: the sequence of items written
    in_flight,        \* HTTP calls issued and not yet returned, each with how it will end
    calls             \* every HTTP call issued, in order: <<test index, file index>>

server_vars == <<form, pc, running, disk, nextTmp, tmp_path, engine_args, inEngine,
                 segments_gen, result_segments, all_words, response>>
temp_vars == <<raw, parsed>>
sweep_vars == <<exists, spc, ti, fi, results, all_results, out, in_flight, calls>>
vars == <<server_vars, temp_vars, sweep_vars>>

(***************************************************************************)
(* Bounds of the model.                                                    *)
(***************************************************************************)
NumRequests == 2     \* concurrent requests in Spec
MaxSegments == 2     \* segments a generator yields at most
MaxRawLen == 4       \* length of the raw temperature strings of SpecTemp
NumTests == 2        \* configurations of the sweep (TESTS has 39)
NumFiles == 2        \* files of the sweep (FILES has 6)

(***************************************************************************)
(* Python values.  Optional[T] is a sequence of length at most one.        *)
(* A str is a sequence of one-character strings.                           *)
(***************************************************************************)
None == <<>>
Some(x) == <<x>>

Range(s) == {s[i] : i \in 1..Len(s)}

SeqsUpTo(S, n) == UNION {[1..k -> S] : k \in 0..n}

RECURSIVE Pow10(_)
Pow10(k) == IF k = 0 THEN 1 ELSE 10 * Pow10(k - 1)

Digits == {"0", "1", "2", "3", "4", "5", "6", "7", "8", "9"}

DigitVal(c) ==
    CASE c = "0" -> 0 [] c = "1" -> 1 [] c = "2" -> 2 [] c = "3" -> 3 [] c = "4" -> 4
      [] c = "5" -> 5 [] c = "6" -> 6 [] c = "7" -> 7 [] c = "8" -> 8 [] c = "9" -> 9

\* str.strip(): leading and trailing whitespace removed.
RECURSIVE StripLeft(_)
StripLeft(s) == IF s # <<>> /\ Head(s) = " " THEN StripLeft(Tail(s)) ELSE s

RECURSIVE StripRight(_)
StripRight(s) ==
    IF s # <<>> /\ s[Len(s)] = " " THEN StripRight(SubSeq(s, 1, Len(s) - 1)) ELSE s

Strip(s) == StripRight(StripLeft(s))

\* str.split(","): the maximal comma-free substrings, empty ones included.
RECURSIVE Split(_)
Split(s) ==
    IF "," \notin Range(s)
    THEN <<s>>
    ELSE LET i == CHOOSE k \in 1..Len(s) : s[k] = "," /\ \A j \in 1..(k - 1) : s[j] # ","
         IN  <<SubSeq(s, 1, i - 1)>> \o Split(SubSeq(s, i + 1, Len(s)))

\* The decimal literals float() accepts, after its own stripping of whitespace:
\* digits with at most one point and at least one digit.  (Signs, exponents,
\* inf and nan are outside the alphabet of the model.)
IsFloat(s) ==
    LET t == Strip(s)
    IN  /\ \A i \in 1..Len(t) : t[i] \in Digits \cup {"."}
        /\ Cardinality({i \in 1..Len(t) : t[i] = "."}) <= 1
        /\ \E i \in 1..Len(t) : t[i] \in Digits

RECURSIVE DigitsVal(_)
DigitsVal(s) ==
    IF s = <<>> THEN 0 ELSE 10 * DigitsVal(SubSeq(s, 1, Len(s) - 1)) + DigitVal(s[Len(s)])

\* A float is <<n, k>>, the number n / 10^k, with k as small as possible, so that
\* equal numbers are equal pairs (0.20 = 0.2 = <<2, 1>>, 0.0 = 0 = <<0, 0>>).
RECURSIVE Normal(_, _)
Normal(n, k) == IF k > 0 /\ n % 10 = 0 THEN Normal(n \div 10, k - 1) ELSE <<n, k>>

\* float(s) for an s with IsFloat(s).
Float(s) ==
    LET t == Strip(s)
        p == IF "." \in Range(t) THEN CHOOSE i \in 1..Len(t) : t[i] = "." ELSE Len(t) + 1
        ip == SubSeq(t, 1, p - 1)
        fp == SubSeq(t, p + 1, Len(t))
    IN  Normal(DigitsVal(ip) * Pow10(Len(fp)) + DigitsVal(fp), Len(fp))

Zero == <<0, 0>>

\* What parse_temperature gives: a float, a list of floats, or a raised ValueError.
Scalar(v) == [kind |-> "float", val |-> v, vals |-> <<>>]
List(vs) == [kind |-> "list", val |-> <<>>, vals |-> vs]
ValueError == [kind |-> "ValueError", val |-> <<>>, vals |-> <<>>]

\* The comprehension with its filter left out: every piece is converted.
KeepAll(t) == TRUE

\* The filter of the list comprehension, `if t.strip()`.
Keep(t) == Strip(t) # <<>>

\* The pieces the comprehension converts.
Pieces(s) == SelectSeq(Split(s), Keep)

parse_temperature(s) ==
    IF "," \in Range(s)
    THEN LET ps == Pieces(s)
         IN  IF \A i \in 1..Len(ps) : IsFloat(ps[i])
             THEN List([i \in 1..Len(ps) |-> Float(ps[i])])
             ELSE ValueError
    ELSE IF ~IsFloat(s)
         THEN ValueError
         ELSE LET val == Float(s)
              IN  IF val = Zero THEN Scalar(Zero) ELSE Scalar(val)

(***************************************************************************)
(* The adapter service: POST /v1/audio/transcriptions.                      *)
(*                                                                         *)
(* The handler is an `async def`: it runs on the event loop of the single  *)
(* uvicorn process, and the loop runs one coroutine at a time, from one    *)
(* `await` to the next.  `running` is the coroutine that holds the loop.   *)
(* The handler's only await is `await file.read()`.                        *)
(*                                                                         *)
(* The form fields modelled are those the handler branches on; the other   *)
(* decoding options are handed to the engine unchanged.                    *)
(***************************************************************************)
NoTask == 0
NoPath == 0

\* Form("0.0,0.2,0.4,0.6,0.8,1.0")
DefaultTemperature ==
    <<"0", ".", "0", ",", "0", ".", "2", ",", "0", ".", "4", ",",
      "0", ".", "6", ",", "0", ".", "8", ",", "1", ".", "0">>

Formats == {"json", "text", "srt", "vtt", "verbose_json", "xml", "TEXT"}

Granularities ==
    {None, Some(<<"segment">>), Some(<<"word">>), Some(<<"segment", "word">>),
     Some(<<"Word">>)}

\* Every combination of the modelled fields (SpecParams).  Each vad_* field
\* takes its default or one other value.
ParamForms ==
    [response_format : Formats,
     temperature : {DefaultTemperature, <<"0", ".", "0">>, <<"x">>},
     timestamp_granularities : Granularities,
     word_timestamps : {None, Some(TRUE), Some(FALSE)},
     vad_filter : BOOLEAN,
     vad_threshold : {5, 3},
     vad_min_speech_duration_ms : {250, 100},
     vad_min_silence_duration_ms : {2000, 500},
     vad_max_speech_duration_s : {"inf", "30"},
     vad_speech_pad_ms : {400, 0}]

\* The forms of the concurrent requests of Spec: the defaults, with two formats.
DefaultForm(fmt) ==
    [response_format |-> fmt,
     temperature |-> DefaultTemperature,
     timestamp_granularities |-> None,
     word_timestamps |-> None,
     vad_filter |-> FALSE,
     vad_threshold |-> 5,
     vad_min_speech_duration_ms |-> 250,
     vad_min_silence_duration_ms |-> 2000,
     vad_max_speech_duration_s |-> "inf",
     vad_speech_pad_ms |-> 400]

ServerForms == {DefaultForm("json"), DefaultForm("srt")}

Requests == DOMAIN form

\* Lines 150-154, with the explicit flag ignored whenever the repeated field
\* names "word".
WantWordsGranularityWins(f) ==
    IF f.timestamp_granularities # None
       /\ "word" \in Range(f.timestamp_granularities[1])
    THEN TRUE
    ELSE f.word_timestamps # None /\ f.word_timestamps[1]

\* Lines 150-154: want_words.
want_words(f) ==
    IF f.word_timestamps # None
    THEN f.word_timestamps[1]
    ELSE f.timestamp_granularities # None
         /\ f.timestamp_granularities[1] # <<>>
         /\ "word" \in Range(f.timestamp_granularities[1])

VadDict(f) ==
    [threshold |-> f.vad_threshold,
     min_speech_duration_ms |-> f.vad_min_speech_duration_ms,
     min_silence_duration_ms |-> f.vad_min_silence_duration_ms,
     max_speech_duration_s |-> f.vad_max_speech_duration_s,
     speech_pad_ms |-> f.vad_speech_pad_ms]

\* Lines 163-171 with the dict built whatever vad_filter is.
VadParamsAlways(f) == Some(VadDict(f))

\* Lines 163-171: vad_params.
vad_params(f) == IF f.vad_filter THEN Some(VadDict(f)) ELSE None

\* Lines 181-208: the keyword arguments the handler computes.
EngineKwargs(f, path) ==
    [audio |-> path,
     temperature |-> parse_temperature(f.temperature),
     word_timestamps |-> want_words(f),
     vad_filter |-> f.vad_filter,
     vad_parameters |-> vad_params(f)]

\* The engine's segment k: it carries words exactly when they were asked for.
Segment(k, kwargs) == [id |-> k, words |-> IF kwargs.word_timestamps THEN <<k>> ELSE <<>>]

\* Lines 216-237: seg_dict, and the words it adds to all_words.
SegWords(r, seg) == IF want_words(form[r]) /\ seg.words # <<>> THEN seg.words ELSE <<>>
SegDict(r, seg) == [id |-> seg.id, words |-> SegWords(r, seg)]

\* Line 240: the text of the segments, joined (a segment's text is its id).
FullText(segs) == [i \in 1..Len(segs) |-> segs[i].id]

\* Lines 86-93: one numbered cue per segment, numbered from 1.
segments_to_srt(segs) == [i \in 1..Len(segs) |-> <<i, segs[i].id>>]

\* Lines 96-102: the cues after the WEBVTT header; a VTT cue has no number.
segments_to_vtt(segs) == [i \in 1..Len(segs) |-> <<0, segs[i].id>>]

Payload(media, shape, keys, text, header, body, segs, words) ==
    [media |-> media, shape |-> shape, keys |-> keys, text |-> text,
     header |-> header, body |-> body, segments |-> segs, words |-> words]

JsonPayload(text) ==
    Payload("application/json", "json", {"text"}, text, "", <<>>, <<>>, <<>>)

VerboseKeys ==
    {"task", "language", "duration", "text", "segments", "words", "processing_time"}

\* Lines 248-271 with the match on "srt" lost: srt falls through to the default.
RenderNoSrt(fmt, text, segs, words, ww) ==
    IF fmt = "text" THEN Payload("text/plain", "text", {}, text, "", <<>>, <<>>, <<>>)
    ELSE IF fmt = "vtt"
    THEN Payload("text/plain", "vtt", {}, <<>>, "WEBVTT", segments_to_vtt(segs), <<>>, <<>>)
    ELSE IF fmt = "verbose_json"
    THEN Payload("application/json", "verbose_json", VerboseKeys, text, "", <<>>, segs,
                 IF ww THEN words ELSE <<>>)
    ELSE JsonPayload(text)

\* Lines 248-271: the response for response_format fmt.
Render(fmt, text, segs, words, ww) ==
    IF fmt = "text" THEN Payload("text/plain", "text", {}, text, "", <<>>, <<>>, <<>>)
    ELSE IF fmt = "srt"
    THEN Payload("text/plain", "srt", {}, <<>>, "", segments_to_srt(segs), <<>>, <<>>)
    ELSE IF fmt = "vtt"
    THEN Payload("text/plain", "vtt", {}, <<>>, "WEBVTT", segments_to_vtt(segs), <<>>, <<>>)
    ELSE IF fmt = "verbose_json"
    THEN Payload("application/json", "verbose_json", VerboseKeys, text, "", <<>>, segs,
                 IF ww THEN words ELSE <<>>)
    ELSE JsonPayload(text)

\* The try body raised and there is no finally clause: the error leaves the handler.
AfterRaiseNoFinally == "failed"

\* Lines 180, 244: an exception raised in the try body runs the finally clause.
AfterRaise == "finally_raise"

\* The engine call handed to a worker thread and awaited: the loop is free meanwhile.
LoopYielded(r) == NoTask

\* Line 181: whisper_model.transcribe is called, not awaited; the coroutine keeps
\* the event loop for as long as the call and the draining last.
LoopDuringEngine(r) == r

\* Line 245: os.unlink.
unlink(d, p) == d \ {p}

SetPc(r, p) == pc' = [pc EXCEPT ![r] = p]

\* Lines 147-174: the handler starts, computes want_words, temp, sup_tokens and
\* vad_params, and awaits file.read().  A temperature that does not parse raises.
Begin(r) ==
    /\ pc[r] = "pending"
    /\ running = NoTask
    /\ IF parse_temperature(form[r].temperature) = ValueError
       THEN SetPc(r, "failed")
       ELSE SetPc(r, "read")
    /\ UNCHANGED <<form, running, disk, nextTmp, tmp_path, engine_args, inEngine,
                   segments_gen, result_segments, all_words, response>>
    /\ UNCHANGED <<temp_vars, sweep_vars>>

\* Line 174: file.read() completes and the coroutine is resumed, or it raises.
ReadDone(r) ==
    /\ pc[r] = "read"
    /\ running = NoTask
    /\ \/ SetPc(r, "tmpfile") /\ running' = r
       \/ SetPc(r, "failed") /\ running' = NoTask
    /\ UNCHANGED <<form, disk, nextTmp, tmp_path, engine_args, inEngine,
                   segments_gen, result_segments, all_words, response>>
    /\ UNCHANGED <<temp_vars, sweep_vars>>

\* Line 176: NamedTemporaryFile(delete=False) creates a file under a fresh name,
\* or raises.
CreateTmp(r) ==
    /\ pc[r] = "tmpfile"
    /\ running = r
    /\ \/ /\ disk' = disk \cup {nextTmp}
          /\ tmp_path' = [tmp_path EXCEPT ![r] = nextTmp]
          /\ nextTmp' = nextTmp + 1
          /\ SetPc(r, "write")
          /\ UNCHANGED running
       \/ /\ SetPc(r, "failed")
          /\ running' = NoTask
          /\ UNCHANGED <<disk, tmp_path, nextTmp>>
    /\ UNCHANGED <<form, engine_args, inEngine, segments_gen, result_segments,
                   all_words, response>>
    /\ UNCHANGED <<temp_vars, sweep_vars>>

\* Lines 177-178: tmp.write(data) and the end of the with block, which closes the
\* file and, with delete=False, leaves it on disk; a write that raises leaves
\* the handler there.
WriteTmp(r) ==
    /\ pc[r] = "write"
    /\ running = r
    /\ \/ SetPc(r, "call") /\ UNCHANGED running
       \/ SetPc(r, "failed") /\ running' = NoTask
    /\ UNCHANGED <<form, disk, nextTmp, tmp_path, engine_args, inEngine,
                   segments_gen, result_segments, all_words, response>>
    /\ UNCHANGED <<temp_vars, sweep_vars>>

\* Line 181: whisper_model.transcribe is entered.
CallEngine(r) ==
    /\ pc[r] = "call"
    /\ running = r
    /\ engine_args' = [engine_args EXCEPT ![r] = Some(EngineKwargs(form[r], tmp_path[r]))]
    /\ inEngine' = inEngine \cup {r}
    /\ running' = LoopDuringEngine(r)
    /\ SetPc(r, "in_call")
    /\ UNCHANGED <<form, disk, nextTmp, tmp_path, segments_gen, result_segments,
                   all_words, response>>
    /\ UNCHANGED <<temp_vars, sweep_vars>>

\* Lines 181-208: transcribe returns the lazy segment generator, or raises.
EngineReturns(r) ==
    /\ pc[r] = "in_call"
    /\ running = r
    /\ \/ \E n \in 0..MaxSegments :
            /\ segments_gen' = [segments_gen EXCEPT ![r] =
                                  [k \in 1..n |-> Segment(k, engine_args[r][1])]]
            /\ SetPc(r, "drain")
            /\ UNCHANGED inEngine
       \/ /\ SetPc(r, AfterRaise)
          /\ inEngine' = inEngine \ {r}
          /\ UNCHANGED segments_gen
    /\ UNCHANGED <<form, running, disk, nextTmp, tmp_path, engine_args,
                   result_segments, all_words, response>>
    /\ UNCHANGED <<temp_vars, sweep_vars>>

\* Lines 215-238: the generator yields its next segment, or raises.
DrainSegment(r) ==
    /\ pc[r] = "drain"
    /\ running = r
    /\ segments_gen[r] # <<>>
    /\ \/ LET seg == Head(segments_gen[r])
          IN  /\ result_segments' =
                    [result_segments EXCEPT ![r] = Append(@, SegDict(r, seg))]
              /\ all_words' = [all_words EXCEPT ![r] = @ \o SegWords(r, seg)]
              /\ segments_gen' = [segments_gen EXCEPT ![r] = Tail(@)]
              /\ UNCHANGED <<pc, inEngine>>
       \/ /\ SetPc(r, AfterRaise)
          /\ inEngine' = inEngine \ {r}
          /\ UNCHANGED <<result_segments, all_words, segments_gen>>
    /\ UNCHANGED <<form, running, disk, nextTmp, tmp_path, engine_args, response>>
    /\ UNCHANGED <<temp_vars, sweep_vars>>

\* Lines 215, 240-242: the generator is exhausted; the try body ends.
DrainEnd(r) ==
    /\ pc[r] = "drain"
    /\ running = r
    /\ segments_gen[r] = <<>>
    /\ inEngine' = inEngine \ {r}
    /\ SetPc(r, "finally")
    /\ UNCHANGED <<form, running, disk, nextTmp, tmp_path, engine_args,
                   segments_gen, result_segments, all_words, response>>
    /\ UNCHANGED <<temp_vars, sweep_vars>>

\* Lines 244-245: the finally clause; after it a pending exception goes on up.
Finally(r) ==
    /\ pc[r] \in {"finally", "finally_raise"}
    /\ running = r
    /\ disk' = unlink(disk, tmp_path[r])
    /\ IF pc[r] = "finally"
       THEN SetPc(r, "render") /\ UNCHANGED running
       ELSE SetPc(r, "failed") /\ running' = NoTask
    /\ UNCHANGED <<form, nextTmp, tmp_path, engine_args, inEngine, segments_gen,
                   result_segments, all_words, response>>
    /\ UNCHANGED <<temp_vars, sweep_vars>>

\* Lines 247-271: the response is built and returned.
Respond(r) ==
    /\ pc[r] = "render"
    /\ running = r
    /\ response' = [response EXCEPT ![r] =
                      Append(@, Render(form[r].response_format,
                                       FullText(result_segments[r]),
                                       result_segments[r], all_words[r],
                                       want_words(form[r])))]
    /\ SetPc(r, "done")
    /\ running' = NoTask
    /\ UNCHANGED <<form, disk, nextTmp, tmp_path, engine_args, inEngine,
                   segments_gen, result_segments, all_words>>
    /\ UNCHANGED <<temp_vars, sweep_vars>>

ServerInit(rs, forms) ==
    /\ form \in [rs -> forms]
    /\ pc = [r \in rs |-> "pending"]
    /\ running = NoTask
    /\ disk = {}
    /\ nextTmp = 1
    /\ tmp_path = [r \in rs |-> NoPath]
    /\ engine_args = [r \in rs |-> None]
    /\ inEngine = {}
    /\ segments_gen = [r \in rs |-> <<>>]
    /\ result_segments = [r \in rs |-> <<>>]
    /\ all_words = [r \in rs |-> <<>>]
    /\ response = [r \in rs |-> <<>>]

ServerNext ==
    \/ \E r \in Requests : Begin(r)
    \/ \E r \in Requests : ReadDone(r)
    \/ \E r \in Requests : CreateTmp(r)
    \/ \E r \in Requests : WriteTmp(r)
    \/ \E r \in Requests : CallEngine(r)
    \/ \E r \in Requests : EngineReturns(r)
    \/ \E r \in Requests : DrainSegment(r)
    \/ \E r \in Requests : DrainEnd(r)
    \/ \E r \in Requests : Finally(r)
    \/ \E r \in Requests : Respond(r)

(***************************************************************************)
(* parse_temperature on every raw string of at most MaxRawLen characters.  *)
(***************************************************************************)
TempChars == {"0", "2", ".", ",", " ", "x"}

TempInit ==
    /\ raw \in SeqsUpTo(TempChars, MaxRawLen)
    /\ parsed = <<>>

ParseRaw ==
    /\ parsed = <<>>
    /\ parsed' = <<parse_temperature(raw)>>
    /\ UNCHANGED raw
    /\ UNCHANGED <<server_vars, sweep_vars>>

TempIdle == raw = <<>> /\ parsed = <<>>

(***************************************************************************)
(* The sweep driver.  A run_test result is a Python dict, here a record;   *)
(* d.get(k, default) and `k in d` read its domain.                         *)
(***************************************************************************)
Get(d, k, default) == IF k \in DOMAIN d THEN d[k] ELSE default

\* FILES and TESTS: the first NumFiles files and NumTests configurations.  The
\* labels of TESTS are pairwise different; a configuration's label is its index.
FILES == 1..NumFiles
Label(t) == t

\* What subprocess.run of curl gives within the timeout: its stdout.  curl -s
\* prints nothing when the connection fails, and the body otherwise: the
\* adapter's verbose_json object, or the text of an error page.
ConnectionFailed == "connection_failed"
ErrorPage == "error_page"
JsonBody == "json_body"
\* subprocess.run raising TimeoutExpired after timeout=120.
TimedOut == "timed_out"

Outcomes == {ConnectionFailed, ErrorPage, JsonBody, TimedOut}

\* The stdout of a call that gave no JSON object.
NoBody == [none |-> TRUE]

\* The JSON bodies: the verbose_json objects the adapter answers with (every JSON
\* body the adapter sends is an object).  Word probabilities are in thousandths.
\* One body has words (one of them exactly at 0.3), one has none.
Bodies ==
    {[text |-> "t1", duration |-> 5, processing_time |-> 2,
      words |-> <<900, 300, 250>>, segments |-> <<1, 2>>],
     [text |-> "", duration |-> 3, processing_time |-> 1,
      words |-> <<>>, segments |-> <<>>]}

RECURSIVE Sum(_)
Sum(s) == IF s = <<>> THEN 0 ELSE Head(s) + Sum(Tail(s))

Min(S) == CHOOSE m \in S : \A x \in S : m <= x

\* round(x, 3) of the quotient num / den of two counts of thousandths.
Round3(num, den) == (2 * num + den) \div (2 * den)

\* Line 54: a low-confidence word has probability < 0.3.
Low(p) == p < 300

\* Lines 46-67: the result record of a parsed response.
ResultRecord(f, data) ==
    LET words == Get(data, "words", <<>>)
        segs == Get(data, "segments", <<>>)
    IN  [file |-> f,
         duration |-> Get(data, "duration", 0),
         proc_time |-> Get(data, "processing_time", 0),
         segments |-> Len(segs),
         words |-> Len(words),
         avg_prob |-> IF words # <<>> THEN Round3(Sum(words), Len(words)) ELSE 0,
         min_prob |-> IF words # <<>> THEN Min(Range(words)) ELSE 0,
         low_conf_words |-> Len(SelectSeq(words, Low)),
         text |-> Get(data, "text", "")]

\* Line 43: the error record; the text of the message is not modelled.
ErrorRecord(f, outcome) == [file |-> f, error |-> "str(e)"]

\* Lines 188-193: the two report lines of one result.
FileLines(t, r) ==
    [kind |-> "file", test |-> t,
     file |-> Get(r, "file", "?"),
     dur |-> Get(r, "duration", 0),
     proc |-> Get(r, "proc_time", 0),
     avgP |-> Get(r, "avg_prob", 0),
     minP |-> Get(r, "min_prob", 0),
     low |-> Get(r, "low_conf_words", 0),
     text |-> Get(r, "text", "")]

\* Line 202: the records without an "error" key.
Valid(r) == "error" \notin DOMAIN r

Field(rs, k) == [i \in 1..Len(rs) |-> rs[i][k]]

\* Lines 205-209: the summary row of a label; a quotient is <<sum, count>>.
SummaryRow(label, valid) ==
    [kind |-> "row", label |-> label,
     avg_p |-> <<Sum(Field(valid, "avg_prob")), Len(valid)>>,
     min_p |-> Min(Range(Field(valid, "min_prob"))),
     low_c |-> Sum(Field(valid, "low_conf_words")),
     avg_t |-> <<Sum(Field(valid, "proc_time")), Len(valid)>>]

\* Lines 201-211: the rows, in the order of all_results (the order of insertion,
\* which is the order of TESTS).
RECURSIVE SummaryRows(_, _)
SummaryRows(t, all) ==
    IF t > NumTests THEN <<>>
    ELSE LET valid == IF Label(t) \in DOMAIN all
                      THEN SelectSeq(all[Label(t)], Valid) ELSE <<>>
         IN  (IF valid = <<>> THEN <<>> ELSE <<SummaryRow(Label(t), valid)>>)
             \o SummaryRows(t + 1, all)

SweepInit ==
    /\ exists \in SUBSET FILES
    /\ spc = "header"
    /\ ti = 1
    /\ fi = 1
    /\ results = <<>>
    /\ all_results = <<>>
    /\ out = <<>>
    /\ in_flight = {}
    /\ calls = <<>>

\* Line 27 with the test always passing.
PresentAlways(f) == TRUE

\* Line 27: os.path.exists(f).
Present(f) == f \in exists

\* curl started without waiting for it: the loop over FILES goes on at once.
AfterIssueNoWait == "file"

\* Line 39: subprocess.run blocks until curl exits or the timeout expires.
AfterIssue == "wait"

\* The summary block inside the loop over TESTS: written after the first lines.
AfterLinesSummaryInLoop == "summary"

\* Lines 179, 196: after the lines of a configuration the loop takes the next
\* configuration; the summary follows the loop.
AfterLines == IF ti < NumTests THEN "header" ELSE "summary"

\* Lines 179-185: the header of configuration ti is written and run_test called.
WriteHeader ==
    /\ spc = "header"
    /\ out' = Append(out, [kind |-> "header", test |-> ti])
    /\ results' = <<>>
    /\ fi' = 1
    /\ spc' = "file"
    /\ UNCHANGED <<exists, ti, all_results, in_flight, calls>>
    /\ UNCHANGED <<server_vars, temp_vars>>

\* Lines 26-29: a file that is missing is skipped.
SkipMissing ==
    /\ spc = "file"
    /\ fi <= NumFiles
    /\ ~Present(fi)
    /\ fi' = fi + 1
    /\ UNCHANGED <<exists, spc, ti, results, all_results, out, in_flight, calls>>
    /\ UNCHANGED <<server_vars, temp_vars>>

\* Lines 31-39: curl is started for the file and the script blocks on it.
IssueCall ==
    /\ spc = "file"
    /\ fi <= NumFiles
    /\ Present(fi)
    /\ \E o \in Outcomes :
         \E body \in (IF o = JsonBody THEN Bodies ELSE {NoBody}) :
            in_flight' = in_flight \cup {[test |-> ti, file |-> fi, outcome |-> o, body |-> body]}
    /\ calls' = Append(calls, <<ti, fi>>)
    /\ spc' = AfterIssue
    /\ UNCHANGED <<exists, ti, fi, results, all_results, out>>
    /\ UNCHANGED <<server_vars, temp_vars>>

\* json.loads of curl's stdout: the object, or None for a JSONDecodeError.
json_loads(p) == IF p.outcome = JsonBody THEN Some(p.body) ELSE None

\* Lines 39-44 with the error record appended twice.
CallResultTwice(f, p) ==
    IF p.outcome = TimedOut \/ json_loads(p) = None
    THEN <<ErrorRecord(f, p.outcome), ErrorRecord(f, p.outcome)>>
    ELSE <<ResultRecord(f, json_loads(p)[1])>>

\* Lines 39-67: what the call for file f that ends as p adds to results.
CallResult(f, p) ==
    IF p.outcome = TimedOut \/ json_loads(p) = None
    THEN <<ErrorRecord(f, p.outcome)>>
    ELSE <<ResultRecord(f, json_loads(p)[1])>>

\* Lines 39-67: subprocess.run returns or raises, the output is parsed, and the
\* result or the error record is appended.
CallReturns ==
    /\ spc = "wait"
    /\ \E c \in in_flight :
         /\ in_flight' = in_flight \ {c}
         /\ results' = results \o CallResult(c.file, c)
    /\ fi' = fi + 1
    /\ spc' = "file"
    /\ UNCHANGED <<exists, ti, all_results, out, calls>>
    /\ UNCHANGED <<server_vars, temp_vars>>

\* Lines 74, 185-186: run_test returns and its list is stored under the label.
StoreResults ==
    /\ spc = "file"
    /\ fi > NumFiles
    /\ all_results' =
          [l \in DOMAIN all_results \cup {Label(ti)} |->
              IF l = Label(ti) THEN results ELSE all_results[l]]
    /\ spc' = "lines"
    /\ UNCHANGED <<exists, ti, fi, results, out, in_flight, calls>>
    /\ UNCHANGED <<server_vars, temp_vars>>

\* Lines 188-194: the lines of the configuration's results are written; the loop
\* goes on to the next configuration, or ends.
WriteLines ==
    /\ spc = "lines"
    /\ out' = out \o [i \in 1..Len(results) |-> FileLines(ti, results[i])]
    /\ ti' = ti + 1
    /\ spc' = AfterLines
    /\ UNCHANGED <<exists, fi, results, all_results, in_flight, calls>>
    /\ UNCHANGED <<server_vars, temp_vars>>

\* Lines 196-211: the summary table.
WriteSummary ==
    /\ spc = "summary"
    /\ out' = Append(out, [kind |-> "summary"]) \o SummaryRows(1, all_results)
    /\ spc' = "done"
    /\ UNCHANGED <<exists, ti, fi, results, all_results, in_flight, calls>>
    /\ UNCHANGED <<server_vars, temp_vars>>

SweepIdle ==
    /\ exists = {}
    /\ spc = "idle"
    /\ ti = 1
    /\ fi = 1
    /\ results = <<>>
    /\ all_results = <<>>
    /\ out = <<>>
    /\ in_flight = {}
    /\ calls = <<>>

SweepNext ==
    \/ WriteHeader
    \/ SkipMissing
    \/ IssueCall
    \/ CallReturns
    \/ StoreResults
    \/ WriteLines
    \/ WriteSummary

(***************************************************************************)
(* The specifications.                                                     *)
(***************************************************************************)
Init == ServerInit(1..NumRequests, ServerForms) /\ TempIdle /\ SweepIdle
Next == ServerNext
Spec == Init /\ [][Next]_vars

InitParams == ServerInit({1}, ParamForms) /\ TempIdle /\ SweepIdle
SpecParams == InitParams /\ [][Next]_vars

InitTemp == ServerInit({}, {}) /\ TempInit /\ SweepIdle
NextTemp == ParseRaw
SpecTemp == InitTemp /\ [][NextTemp]_vars

InitSweep == ServerInit({}, {}) /\ TempIdle /\ SweepInit
NextSweep == SweepNext
SpecSweep == InitSweep /\ [][NextSweep]_vars

(***************************************************************************)
(* The claims.                                                             *)
(***************************************************************************)

\* C1: once the engine call of a request has been started and has completed,
\* by returning and being drained or by raising, the transient file of the
\* request is gone; and it is gone before any payload is returned.
C1_TransientFileRemoved ==
    \A r \in Requests :
        /\ (engine_args[r] # None /\ pc[r] \in {"render", "done", "failed"})
              => (tmp_path[r] # NoPath /\ tmp_path[r] \notin disk)
        /\ response[r] # <<>> => tmp_path[r] \notin disk

C1_Witness ==
    \E r1, r2 \in Requests :
        /\ pc[r1] = "failed" /\ engine_args[r1] # None /\ tmp_path[r1] \notin disk
        /\ pc[r2] = "done" /\ response[r2] # <<>> /\ tmp_path[r2] \notin disk

\* C2: at most one request at a time is between its call of
\* whisper_model.transcribe and the end of the draining of its generator.
C2_OneInference == Cardinality(inEngine) <= 1

C2_Witness ==
    \E r1, r2 \in Requests :
        /\ r1 \in inEngine /\ pc[r1] = "drain" /\ result_segments[r1] # <<>>
        /\ r2 # r1 /\ pc[r2] = "read"

\* C5: the word_timestamps argument of the engine call is the explicit flag when
\* the flag is present, and otherwise whether timestamp_granularities[] is present
\* and holds "word".
C5_WordTimestamps ==
    \A r \in Requests :
        engine_args[r] # None =>
            LET f == form[r]
                given == engine_args[r][1].word_timestamps
            IN  /\ f.word_timestamps = Some(TRUE) => given = TRUE
                /\ f.word_timestamps = Some(FALSE) => given = FALSE
                /\ f.word_timestamps = None =>
                      (given <=> /\ f.timestamp_granularities # None
                                 /\ \E i \in 1..Len(f.timestamp_granularities[1]) :
                                       f.timestamp_granularities[1][i] = "word")

C5_Witness ==
    \E r \in Requests :
        /\ engine_args[r] # None
        /\ form[r].word_timestamps = Some(FALSE)
        /\ form[r].timestamp_granularities = Some(<<"word">>)
        /\ engine_args[r][1].word_timestamps = FALSE

\* C6: the engine is given VAD options exactly when vad_filter is true, and then
\* the object built from the five vad_* fields of the request; with vad_filter
\* false it is given None, whatever the vad_* fields hold.
C6_VadOptions ==
    \A r \in Requests :
        engine_args[r] # None =>
            LET f == form[r]
                given == engine_args[r][1].vad_parameters
            IN  /\ engine_args[r][1].vad_filter = f.vad_filter
                /\ ~f.vad_filter => given = None
                /\ f.vad_filter =>
                      /\ given # None
                      /\ DOMAIN given[1] = {"threshold", "min_speech_duration_ms",
                                            "min_silence_duration_ms",
                                            "max_speech_duration_s", "speech_pad_ms"}
                      /\ given[1].threshold = f.vad_threshold
                      /\ given[1].min_speech_duration_ms = f.vad_min_speech_duration_ms
                      /\ given[1].min_silence_duration_ms = f.vad_min_silence_duration_ms
                      /\ given[1].max_speech_duration_s = f.vad_max_speech_duration_s
                      /\ given[1].speech_pad_ms = f.vad_speech_pad_ms

C6_Witness ==
    \E r \in Requests :
        /\ engine_args[r] # None
        /\ ~form[r].vad_filter
        /\ form[r].vad_threshold = 3
        /\ form[r].vad_speech_pad_ms = 0
        /\ engine_args[r][1].vad_parameters = None

\* C7: a request that was transcribed gets exactly one payload, and nothing else
\* gets one; "text", "srt", "vtt" and "verbose_json" give their own shapes, and
\* any other response_format gives the object holding only the text.
C7_Formats ==
    \A r \in Requests :
        /\ Len(response[r]) <= 1
        /\ response[r] # <<>> <=> pc[r] = "done"
        /\ pc[r] = "done" =>
              LET fmt == form[r].response_format
                  p == response[r][1]
              IN  /\ fmt \in {"text", "srt", "vtt", "verbose_json"} => p.shape = fmt
                  /\ fmt \in {"text", "srt", "vtt"} => p.media = "text/plain" /\ p.keys = {}
                  /\ fmt = "verbose_json" =>
                        /\ p.media = "application/json"
                        /\ {"text", "segments", "words"} \subseteq p.keys
                  /\ fmt \notin {"text", "srt", "vtt", "verbose_json"} =>
                        p = [media |-> "application/json", shape |-> "json",
                             keys |-> {"text"},
                             text |-> [i \in 1..Len(result_segments[r]) |->
                                          result_segments[r][i].id],
                             header |-> "", body |-> <<>>, segments |-> <<>>,
                             words |-> <<>>]

C7_Witness ==
    \E r \in Requests :
        /\ pc[r] = "done"
        /\ form[r].response_format = "xml"
        /\ Len(result_segments[r]) = 2
        /\ response[r][1].shape = "json"

\* The pieces of a raw string that are not empty once trimmed.
C8_NonEmpty(t) == Strip(t) # <<>>
C8_Kept(s) == SelectSeq(Split(s), C8_NonEmpty)

\* C8, as amended: the result is a list exactly when the raw field holds a comma
\* (and parses); the list holds, in order, the values of the substrings between
\* the commas that are not empty once trimmed; a raw field without a comma gives
\* a scalar, and "0.0" gives the scalar 0.0.
C8_ParseTemperature ==
    parsed # <<>> =>
        LET res == parsed[1]
            kept == C8_Kept(raw)
        IN  /\ res.kind = "list" => "," \in Range(raw)
            /\ res.kind = "float" => "," \notin Range(raw)
            /\ ("," \in Range(raw) /\ \A i \in 1..Len(kept) : IsFloat(kept[i])) =>
                  /\ res.kind = "list"
                  /\ Len(res.vals) = Len(kept)
                  /\ \A i \in 1..Len(kept) : res.vals[i] = Float(kept[i])
            /\ ("," \notin Range(raw) /\ IsFloat(raw)) =>
                  res.kind = "float" /\ res.val = Float(raw)
            /\ raw = <<"0", ".", "0">> => res.kind = "float" /\ res.val = <<0, 0>>

C8_Witness ==
    /\ raw = <<"0", ",", ",", "2">>
    /\ parsed = <<[kind |-> "list", val |-> <<>>, vals |-> <<<<0, 0>>, <<2, 0>>>>]>>

\* C8 as stated: a list that is returned matches the substrings of the split one
\* for one.
C8_OneForOne ==
    (parsed # <<>> /\ parsed[1].kind = "list") =>
        /\ Len(parsed[1].vals) = Len(Split(raw))
        /\ \A i \in 1..Len(Split(raw)) :
              IsFloat(Split(raw)[i]) /\ parsed[1].vals[i] = Float(Split(raw)[i])

\* C3: a call that fails (no connection, the timeout, a body that is no JSON)
\* adds exactly one error record, for its file, to the results of its
\* configuration, and the loop goes on with the next file of that configuration;
\* at the end of the run every configuration has processed every file on disk.
C3_Step ==
    \A c \in in_flight :
        (spc = "wait" /\ c.outcome \in {ConnectionFailed, ErrorPage, TimedOut}) =>
            /\ Len(results') = Len(results) + 1
            /\ SubSeq(results', 1, Len(results)) = results
            /\ DOMAIN results'[Len(results')] = {"file", "error"}
            /\ results'[Len(results')].file = c.file
            /\ c.file = fi /\ c.test = ti
            /\ spc' = "file" /\ fi' = fi + 1 /\ ti' = ti
            /\ all_results' = all_results /\ out' = out /\ calls' = calls

C3_Final ==
    spc = "done" =>
        \A t \in 1..NumTests :
            /\ Label(t) \in DOMAIN all_results
            /\ {all_results[Label(t)][i].file : i \in 1..Len(all_results[Label(t)])} = exists

C3_ErrorsRecorded == [][C3_Step]_vars /\ []C3_Final

C3_Witness ==
    /\ spc = "done"
    /\ Len(all_results[Label(1)]) = 2
    /\ "error" \in DOMAIN all_results[Label(1)][1]
    /\ "error" \notin DOMAIN all_results[Label(1)][2]
    /\ "error" \notin DOMAIN all_results[Label(2)][1]

\* C4: a file that is not on disk is never requested and never gets a record, in
\* any configuration, and the files after it are processed: at the end of the run
\* every file on disk has been requested in every configuration.
C4_MissingSkipped ==
    /\ \A i \in 1..Len(calls) : calls[i][2] \in exists
    /\ \A c \in in_flight : c.file \in exists
    /\ \A i \in 1..Len(results) : results[i].file \in exists
    /\ \A l \in DOMAIN all_results :
          \A i \in 1..Len(all_results[l]) : all_results[l][i].file \in exists
    /\ \A i \in 1..Len(out) : out[i].kind = "file" => out[i].file \in exists
    /\ spc = "done" =>
          \A t \in 1..NumTests : \A f \in exists : \E i \in 1..Len(calls) : calls[i] = <<t, f>>

C4_Witness ==
    /\ spc = "done"
    /\ 1 \notin exists
    /\ 2 \in exists
    /\ \A t \in 1..NumTests : \E i \in 1..Len(calls) : calls[i] = <<t, 2>>

\* <<t1, f1>> comes before <<t2, f2>> in the order of the sweep.
C9_Before(a, b) == a[1] < b[1] \/ (a[1] = b[1] /\ a[2] < b[2])

\* C9: at most one HTTP call is in flight; the calls are issued configuration by
\* configuration in the order of TESTS, and file by file in the order of FILES;
\* over a whole run there is exactly one call for each configuration and file on
\* disk, and each configuration's list holds one entry per file on disk, in the
\* order of the files.
C9_Sequential ==
    /\ Cardinality(in_flight) <= 1
    /\ \A i \in 1..(Len(calls) - 1) : C9_Before(calls[i], calls[i + 1])
    /\ \A i \in 1..Len(calls) : calls[i][1] \in 1..NumTests /\ calls[i][2] \in exists
    /\ spc = "done" =>
          /\ Len(calls) = NumTests * Cardinality(exists)
          /\ in_flight = {}
          /\ \A t \in 1..NumTests :
                LET rs == all_results[Label(t)]
                IN  /\ Len(rs) = Cardinality(exists)
                    /\ \A i \in 1..(Len(rs) - 1) : rs[i].file < rs[i + 1].file
                    /\ \A i \in 1..Len(rs) : rs[i].file \in exists

C9_Witness ==
    /\ spc = "done"
    /\ exists = FILES
    /\ calls = <<<<1, 1>>, <<1, 2>>, <<2, 1>>, <<2, 2>>>>
    /\ "error" \in DOMAIN all_results[Label(1)][2]

C10_IsRow(x) == x.kind = "row"
C10_LinesOf(t) == {i \in 1..Len(out) : out[i].kind = "file" /\ out[i].test = t}
C10_ValidOf(rs) == {i \in 1..Len(rs) : "error" \notin DOMAIN rs[i]}

RECURSIVE C10_SumOver(_, _, _)
C10_SumOver(rs, k, S) ==
    IF S = {} THEN 0
    ELSE LET i == CHOOSE x \in S : TRUE IN rs[i][k] + C10_SumOver(rs, k, S \ {i})

\* C10: the lines of a configuration are in the report only once all its files
\* are done, and all of them are there before the next configuration's first
\* request; the summary is there only once every configuration is done; it has at
\* most one row per configuration, a row aggregates the configuration's records
\* without an error and no others, and a configuration without such a record has
\* no row.
C10_Report ==
    /\ \A t \in 1..NumTests :
          /\ C10_LinesOf(t) # {} =>
                /\ Label(t) \in DOMAIN all_results
                /\ ti > t
                /\ \A c \in in_flight : c.test # t
          /\ (\E i \in 1..Len(calls) : calls[i][1] > t) =>
                /\ Label(t) \in DOMAIN all_results
                /\ Cardinality(C10_LinesOf(t)) = Len(all_results[Label(t)])
    /\ \A i \in 1..Len(out) :
          out[i].kind \in {"summary", "row"} =>
              /\ DOMAIN all_results = {Label(t) : t \in 1..NumTests}
              /\ ti > NumTests
              /\ in_flight = {}
              /\ \A t \in 1..NumTests :
                    Cardinality(C10_LinesOf(t)) = Len(all_results[Label(t)])
              /\ \A j \in (i + 1)..Len(out) : out[j].kind = "row"
    /\ spc = "done" =>
          LET rows == SelectSeq(out, C10_IsRow)
          IN  /\ \E i \in 1..Len(out) : out[i].kind = "summary"
              /\ \A i, j \in 1..Len(rows) : rows[i].label = rows[j].label => i = j
              /\ \A i \in 1..Len(rows) :
                    LET rs == all_results[rows[i].label]
                        V == C10_ValidOf(rs)
                    IN  /\ V # {}
                        /\ rows[i].avg_p = <<C10_SumOver(rs, "avg_prob", V), Cardinality(V)>>
                        /\ rows[i].avg_t = <<C10_SumOver(rs, "proc_time", V), Cardinality(V)>>
                        /\ rows[i].low_c = C10_SumOver(rs, "low_conf_words", V)
                        /\ rows[i].min_p \in {rs[v].min_prob : v \in V}
                        /\ \A v \in V : rows[i].min_p <= rs[v].min_prob
              /\ \A t \in 1..NumTests :
                    C10_ValidOf(all_results[Label(t)]) = {} =>
                        \A i \in 1..Len(rows) : rows[i].label # Label(t)

C10_Witness ==
    /\ spc = "done"
    /\ exists = FILES
    /\ "error" \in DOMAIN all_results[Label(1)][1]
    /\ "error" \in DOMAIN all_results[Label(1)][2]
    /\ "error" \in DOMAIN all_results[Label(2)][1]
    /\ "error" \notin DOMAIN all_results[Label(2)][2]
    /\ all_results[Label(2)][2].words = 3
    /\ Len(SelectSeq(out, C10_IsRow)) = 1

\* C11: no transient file outlives its request: every file on disk is the file of
\* a request that is still being handled, so that once a request has ended, with
\* a response or with an error raised anywhere in the handler, its file is gone.
C11_NoFileOutlivesRequest ==
    disk \subseteq {tmp_path[r] : r \in {q \in Requests : pc[q] \notin {"done", "failed"}}}

=============================================================================
